---- MODULE Spec2Model ----
(***************************************************************************)
(* Publish orchestration of gitblog: the publish gate of SyncService       *)
(* (in-flight lock with stale reclaim, global cooldown of                  *)
(* GlobalStateManager) and the body of publishAndRefreshGitHubPages, one   *)
(* action per continuation between two awaits.                             *)
(***************************************************************************)
EXTENDS Integers, Sequences, FiniteSets, TLC

\* ---------------------------------------------------------------- constants
PUBLISH_TIMEOUT == 300000
GITHUB_ACTION_COOLDOWN == 60000
BUILD_RECENT_WINDOW == 120000
MIN_REQUEST_INTERVAL == 200

\* ------------------------------------------------------------------- bounds
Tick == 300000
MaxTicks == 2
StartTime == 1000000
MaxPosts == 2
MaxFaults == 2
MaxCalls == 5
MaxLen == 2
CooldownStep == 500
MaxCooldownSteps == 125
PacingStep == 100
MaxPacingSteps == 5
MaxNameLen == 3
MaxOps == 3

Callers == {"c1", "c2"}
Filenames == 1..MaxPosts

SiteFiles_HomepageFirst ==
  <<"index.md", "assets/css/style.css", "_layouts/default.html", "_config.yml",
    "README.md">>

\* Well-known remote paths written by a publish run, in the order of the code.
SiteFiles == <<"_config.yml", "assets/css/style.css", "_layouts/default.html",
               "index.md", "README.md">>
SiteTags == <<"Jekyll config", "CSS style", "Default layout", "Homepage", "README">>
SitePcs == <<"updateJekyllConfig", "updateCssFile", "updateDefaultLayout",
             "updateIndexPage", "updateReadme">>
SitePaths == {SiteFiles[k] : k \in 1..Len(SiteFiles)}

VARIABLES
  now,                   \* Date.now()
  isPublishing,          \* SyncService.isPublishing
  publishingStartTime,   \* SyncService.publishingStartTime
  lastGitHubActionTime,  \* GlobalStateManager.lastGitHubActionTime
  config,                \* stored AppConfig: "valid", "empty" or "badurl"
  apiRepo,               \* GitHubApiService.owner/repo: "" until configured
  localPosts,            \* local post collection (sequence of filenames)
  settings,              \* LocalSettings record (lastSync: "" or a date)
  remoteSite,            \* well-known files that exist in the repository
  remotePosts,           \* post files that exist in the repository
  pagesEnabled,          \* whether the Pages target exists remotely
  faultsLeft,            \* failures the environment may still inject
  overridden,            \* resetCooldown has been called
  run,                   \* per caller: state of its publishAndRefreshGitHubPages call
  requestQueue,          \* GitHubApiService.requestQueue: the chain of queued calls
  sanitizer,             \* a call of GitHubApiService.sanitizeContent
  jekyllConfig,          \* stored JekyllSiteConfig: "absent" or "stored"
  homepageConfig,        \* stored HomepageConfig: "absent" or "stored"
  pacing,                \* GitHubApiService.lastRequestTime and the requests in the interceptor
  apiConfig,             \* GitHubApiService.owner, repo, token and the last call of setApiConfig
  storage,               \* AsyncStorage under POSTS_KEY and the calls of LocalStorageService
  sync                   \* a call of SyncService.syncToGitHub

vars == <<now, isPublishing, publishingStartTime, lastGitHubActionTime, config,
          apiRepo, localPosts, settings, remoteSite, remotePosts, pagesEnabled,
          faultsLeft, overridden, run, requestQueue, sanitizer, jekyllConfig,
          homepageConfig, pacing, apiConfig, storage, sync>>

\* The state of the publish orchestration and the state of the GitHub client.
publish == <<now, isPublishing, publishingStartTime, lastGitHubActionTime, config,
             apiRepo, localPosts, settings, remoteSite, remotePosts, pagesEnabled,
             faultsLeft, overridden, run, jekyllConfig, homepageConfig>>
client == <<requestQueue, sanitizer, pacing, apiConfig, storage, sync>>

gate == <<isPublishing, publishingStartTime, lastGitHubActionTime>>
local == <<config, localPosts, settings, jekyllConfig, homepageConfig>>
remote == <<remoteSite, remotePosts, pagesEnabled>>

\* ------------------------------------------------------------------ helpers
Range(s) == {s[k] : k \in 1..Len(s)}

\* Sequences over S of length at most n without repeated elements.
RECURSIVE SeqsNoDup(_, _)
SeqsNoDup(S, n) ==
  IF n = 0 THEN {<<>>}
  ELSE LET shorter == SeqsNoDup(S, n - 1)
       IN shorter \cup {Append(p[1], p[2]) :
                          p \in {q \in shorter \X S : q[2] \notin Range(q[1])}}

CeilDiv(a, b) == (a + b - 1) \div b

NoInfo == [n |-> 0, status |-> "", age |-> 0]

\* One entry of a run's request log: a remote request with the status it
\* settled with, or a local-storage operation (op = "local").
Req(op, path, file, sha, status) ==
  [op |-> op, path |-> path, file |-> file, sha |-> sha, status |-> status,
   info |-> NoInfo, repo |-> ""]

Err(tag, file, msg) == [tag |-> tag, file |-> file, msg |-> msg]

Result(success, message, synced, errors, wait, pagesUrl) ==
  [success |-> success, message |-> message, synced |-> synced,
   errors |-> errors, wait |-> wait, pagesUrl |-> pagesUrl]

NoResult == Result(FALSE, "", 0, <<>>, 0, "")

IdleRun ==
  [pc |-> "idle", synced |-> 0, errors |-> <<>>, i |-> 0, existing |-> {},
   existingPosts |-> {}, pagesUrl |-> "", result |-> NoResult,
   posts |-> <<>>, admitted |-> FALSE, reclaimed |-> FALSE, admittedAt |-> 0,
   log |-> <<>>, repo |-> ""]

\* No request has reached the interceptor: lastRequestTime = 0.
IdlePacing ==
  [lastRequestTime |-> 0, stage |-> [k \in 1..MaxCalls |-> "none"],
   wake |-> [k \in 1..MaxCalls |-> 0], previous |-> 0, latest |-> 0, sent |-> 0]

\* No call of sanitizeContent has been made.
IdleSanitizer == [pc |-> "idle", content |-> <<>>, payload |-> <<>>]

\* ------------------------------------------------- GlobalStateManager (pure)
canTriggerGitHubAction(n, last) == n - last >= GITHUB_ACTION_COOLDOWN

getRemainingCooldown_RoundsDown(n, last) ==
  LET remainingTime == GITHUB_ACTION_COOLDOWN - (n - last)
  IN IF remainingTime > 0 THEN remainingTime \div 1000 ELSE 0

getRemainingCooldown(n, last) ==
  LET remainingTime == GITHUB_ACTION_COOLDOWN - (n - last)
  IN IF remainingTime > 0 THEN CeilDiv(remainingTime, 1000) ELSE 0

\* --------------------------------------------------------- SyncService gate
IsStale_AtTimeout(n, start) == n - start >= PUBLISH_TIMEOUT

\* "publishing has been stuck for too long"
IsStale(n, start) == n - start > PUBLISH_TIMEOUT

InProgressResult ==
  Result(FALSE, "Publication already in progress", 0,
         <<Err("gate", 0, "Another publication is already running. Please wait.")>>,
         0, "")

CooldownResult(remainingTime) ==
  Result(FALSE, "Please wait before publishing again", 0,
         <<Err("gate", 0, "Global cooldown active")>>, remainingTime, "")

NotConfiguredResult ==
  Result(FALSE, "GitHub not configured", 0,
         <<Err("", 0, "Please configure GitHub settings first")>>, 0, "")

\* The outer catch of publishAndRefreshGitHubPages.
PublishFailedResult(msg) ==
  Result(FALSE, "Publish failed", 0, <<Err("", 0, msg)>>, 0, "")

PublishedResult(r) ==
  Result(Len(r.errors) = 0, "Published", r.synced, r.errors, 0, r.pagesUrl)

ReleaseLock_Skipped ==
  UNCHANGED <<isPublishing, publishingStartTime>>

\* The finally block: the lock is released whatever the outcome.
ReleaseLock ==
  /\ isPublishing' = FALSE
  /\ publishingStartTime' = 0

\* A return from inside the try: the result is fixed, then finally runs.  The
\* locals of the call are gone; the caller holds the result.
Return(c, r, res) ==
  /\ run' = [run EXCEPT ![c] = [IdleRun EXCEPT !.pc = "returned", !.result = res,
                                               !.admitted = r.admitted,
                                               !.reclaimed = r.reclaimed]]
  /\ ReleaseLock

Goto(c, r, pc) ==
  /\ run' = [run EXCEPT ![c] = [r EXCEPT !.pc = pc]]
  /\ UNCHANGED <<isPublishing, publishingStartTime>>

\* The environment injects a failure only while its budget lasts.
Charge(n) ==
  /\ n <= faultsLeft
  /\ faultsLeft' = faultsLeft - n

\* The requests that have settled are logged with the repository they were
\* addressed to; the continuation issues the next request, whose URL is built
\* from the owner and repo the client holds now.
Logged(r, entries) ==
  [r EXCEPT !.log = @ \o [k \in 1..Len(entries) |-> [entries[k] EXCEPT !.repo = r.repo]],
            !.repo = apiRepo]

Ok(status) == status \in {200, 201}

\* The stale branch of the gate clears both lock fields before the cooldown
\* check; a free lock is left as it is.
ReclaimStaleLock_KeepsStartTime(reclaim) ==
  /\ isPublishing' = FALSE
  /\ UNCHANGED publishingStartTime

ReclaimStaleLock(reclaim) ==
  /\ isPublishing' = FALSE
  /\ publishingStartTime' = IF reclaim THEN 0 ELSE publishingStartTime

\* "Set publishing state"
AcquireLock ==
  /\ isPublishing' = TRUE
  /\ publishingStartTime' = now

\* The synchronous head of publishAndRefreshGitHubPages, up to its first await.
Gate(c) ==
  /\ LET reclaim == isPublishing /\ IsStale(now, publishingStartTime)
         r0 == [IdleRun EXCEPT !.reclaimed = reclaim]
     IN IF isPublishing /\ ~reclaim
        THEN /\ run' = [run EXCEPT ![c] = [r0 EXCEPT !.pc = "returned",
                                                     !.result = InProgressResult]]
             /\ UNCHANGED <<isPublishing, publishingStartTime>>
        ELSE IF ~canTriggerGitHubAction(now, lastGitHubActionTime)
        THEN /\ run' = [run EXCEPT ![c] =
                          [r0 EXCEPT !.pc = "returned",
                                     !.result = CooldownResult(
                                        getRemainingCooldown(now, lastGitHubActionTime))]]
             /\ ReclaimStaleLock(reclaim)
        ELSE /\ run' = [run EXCEPT ![c] = [r0 EXCEPT !.pc = "getConfig",
                                                     !.admitted = TRUE,
                                                     !.admittedAt = now]]
             /\ AcquireLock
  /\ UNCHANGED <<client, now, lastGitHubActionTime, overridden, local, apiRepo, remote, faultsLeft, overridden>>

\* A caller's first call of publishAndRefreshGitHubPages.
Call(c) ==
  /\ run[c].pc = "idle"
  /\ Gate(c)

\* A caller that holds the result of its previous call calls again.
CallAgain(c) ==
  /\ run[c].pc = "returned"
  /\ Gate(c)

\* configService.getConfig settles; setApiConfig and the call of testConnection.
GetConfigSettles(c) ==
  /\ run[c].pc = "getConfig"
  /\ \E thrown \in BOOLEAN :
       /\ Charge(IF thrown THEN 1 ELSE 0)
       /\ LET r == Logged(run[c], <<Req("local", "getConfig", 0, FALSE,
                                        IF thrown THEN 500 ELSE 200)>>)
          IN IF thrown
             THEN Return(c, r, PublishFailedResult("Failed to load configuration"))
                  /\ UNCHANGED apiRepo
             ELSE IF config = "empty"
             THEN Return(c, r, NotConfiguredResult) /\ UNCHANGED apiRepo
             ELSE IF config = "badurl"
             THEN Return(c, r, PublishFailedResult("Invalid GitHub repository URL"))
                  /\ UNCHANGED apiRepo
             ELSE Goto(c, [r EXCEPT !.repo = "owner/repo"], "testConnection")
                  /\ apiRepo' = "owner/repo"
  /\ UNCHANGED <<client, now, lastGitHubActionTime, overridden, local, remote>>

TestConnectionMessage(status) ==
  IF status = 401 THEN "Invalid GitHub token"
  ELSE IF status = 404 THEN "Repository not found"
  ELSE "Failed to connect to GitHub"

ConnectionFailed_OnlyUnauthorized(status) == status = 401

\* testConnection rethrows every rejection of the repository request.
ConnectionFailed(status) == ~Ok(status)

\* testConnection settles; on success the three local reads are started.
TestConnectionSettles(c) ==
  /\ run[c].pc = "testConnection"
  /\ \E status \in {200, 401, 404, 500} :
       /\ Charge(IF Ok(status) THEN 0 ELSE 1)
       /\ LET r == Logged(run[c], <<Req("GET", "repo", 0, FALSE, status)>>)
          IN IF ConnectionFailed(status)
             THEN Return(c, r, PublishFailedResult(TestConnectionMessage(status)))
             ELSE Goto(c, r, "loadLocal")
  /\ UNCHANGED <<client, now, lastGitHubActionTime, overridden, local, apiRepo, remote>>

StoredAfterGet_PersistsDefault(doc) == IF doc = "absent" THEN "stored" ELSE doc

\* What the store holds under the key of a document after its getter ran: the
\* getter answers a missing document with the defaults and stores nothing.
StoredAfterGet(doc) == doc

\* Step 1: getJekyllConfig, getHomepageConfig and getPosts settle (none of
\* them throws); the five remote reads of step 2 are started.
LoadLocalSettles(c) ==
  /\ run[c].pc = "loadLocal"
  /\ LET r == Logged([run[c] EXCEPT !.posts = localPosts],
                     <<Req("local", "getJekyllConfig", 0, FALSE, 200),
                       Req("local", "getHomepageConfig", 0, FALSE, 200),
                       Req("local", "getPosts", 0, FALSE, 200)>>)
     IN Goto(c, r, "fetchExisting")
  /\ jekyllConfig' = StoredAfterGet(jekyllConfig)
  /\ homepageConfig' = StoredAfterGet(homepageConfig)
  /\ UNCHANGED <<client, now, lastGitHubActionTime, overridden, config, localPosts, settings,
                 apiRepo, remote, faultsLeft>>

ReadStatus(path, failed) ==
  IF path \in failed THEN 500 ELSE IF path \in remoteSite THEN 200 ELSE 404

\* Step 2: the parallel reads settle; a read that fails or finds nothing
\* yields an empty sha.
FetchExistingSettles(c) ==
  /\ run[c].pc = "fetchExisting"
  /\ \E failed \in SUBSET SitePaths :
       /\ Charge(Cardinality(failed))
       /\ LET r == Logged([run[c] EXCEPT !.existing = remoteSite \ failed],
                          [k \in 1..Len(SiteFiles) |->
                             Req("GET", SiteFiles[k], 0, FALSE,
                                 ReadStatus(SiteFiles[k], failed))])
          IN Goto(c, r, SitePcs[1])
  /\ UNCHANGED <<client, now, lastGitHubActionTime, overridden, local, apiRepo, remote>>

\* Statuses a contents PUT can settle with: a create of a file that exists is
\* rejected by the store; otherwise it succeeds unless a failure is injected.
WriteOutcomes(hasSha, exists) ==
  IF hasSha THEN {200, 409, 500}
  ELSE IF exists THEN {422}
  ELSE {201, 500}

Injected(status) == status \in {409, 500}

SiteWriteMessage(k) ==
  <<"Failed to update Jekyll configuration", "Failed to update CSS style",
    "Failed to update default layout", "Failed to update homepage",
    "Failed to update README">>[k]

RecordSiteWrite_NotCounted(r, k, status) ==
  IF Ok(status)
  THEN r
  ELSE [r EXCEPT !.errors = Append(@, Err(SiteTags[k], 0, SiteWriteMessage(k)))]

\* One update of step 4: success counts, failure is recorded, the next
\* request is started either way.
RecordSiteWrite(r, k, status) ==
  IF Ok(status)
  THEN [r EXCEPT !.synced = @ + 1]
  ELSE [r EXCEPT !.errors = Append(@, Err(SiteTags[k], 0, SiteWriteMessage(k)))]

SiteWriteSettles(c, k) ==
  /\ run[c].pc = SitePcs[k]
  /\ LET path == SiteFiles[k]
         hasSha == path \in run[c].existing
     IN \E status \in WriteOutcomes(hasSha, path \in remoteSite) :
          /\ Charge(IF Injected(status) THEN 1 ELSE 0)
          /\ remoteSite' = IF Ok(status) THEN remoteSite \cup {path} ELSE remoteSite
          /\ Goto(c, Logged(RecordSiteWrite(run[c], k, status),
                            <<Req("PUT", path, 0, hasSha, status)>>),
                  IF k < Len(SiteFiles) THEN SitePcs[k + 1] ELSE "getPosts")
  /\ UNCHANGED <<client, now, lastGitHubActionTime, overridden, local, apiRepo, remotePosts,
                 pagesEnabled>>

UpdateJekyllConfigSettles(c) == SiteWriteSettles(c, 1)
UpdateCssFileSettles(c) == SiteWriteSettles(c, 2)
UpdateDefaultLayoutSettles(c) == SiteWriteSettles(c, 3)
UpdateIndexPageSettles(c) == SiteWriteSettles(c, 4)
UpdateReadmeSettles(c) == SiteWriteSettles(c, 5)

\* After the listing and after each post: the next post write, or step 6.
NextPostPc(r, i) == IF i <= Len(r.posts) THEN "writePost" ELSE "enableGitHubPages"

\* Statuses the listing of _posts can settle with: the directory of a
\* repository without posts may be missing (404, "Posts directory not found").
ListingOutcomes(posts) == IF posts = {} THEN {200, 404, 500} ELSE {200, 500}

\* Step 5, listing: a failed listing leaves the lookup empty.
GetPostsSettles(c) ==
  /\ run[c].pc = "getPosts"
  /\ \E status \in ListingOutcomes(remotePosts) :
       /\ Charge(IF Injected(status) THEN 1 ELSE 0)
       /\ LET r == Logged([run[c] EXCEPT
                             !.existingPosts = IF Ok(status) THEN remotePosts ELSE {},
                             !.i = 1],
                          <<Req("GET", "_posts", 0, FALSE, status)>>)
          IN Goto(c, r, NextPostPc(r, 1))
  /\ UNCHANGED <<client, now, lastGitHubActionTime, overridden, local, apiRepo, remote>>

PostWriteMessage(hasSha, status) ==
  IF hasSha
  THEN IF status = 409
       THEN "Post has been modified by someone else. Please refresh and try again."
       ELSE "Failed to update post"
  ELSE IF status = 422
       THEN "A post with this filename already exists"
       ELSE "Failed to create post"

\* The body of the post loop after the write of post i has settled.
RecordPostWrite(r, f, hasSha, status) ==
  IF Ok(status)
  THEN [r EXCEPT !.synced = @ + 1]
  ELSE [r EXCEPT !.errors = Append(@, Err("Post", f, PostWriteMessage(hasSha, status)))]

AfterPostPc_StopsAtFailure(r, i, status) ==
  IF Ok(status)
  THEN IF i < Len(r.posts) THEN "delay" ELSE "enableGitHubPages"
  ELSE "enableGitHubPages"

\* Where the loop goes after post i: the delay follows a success that is not
\* the last post; a failure goes straight to the next iteration.
AfterPostPc(r, i, status) ==
  IF Ok(status) /\ i < Len(r.posts) THEN "delay" ELSE NextPostPc(r, i + 1)

HasSha_Never(r, f) == FALSE

\* existingPosts.get(post.filename): the sha of the listing, if any.
HasSha(r, f) == f \in r.existingPosts

PostWriteSettles(c) ==
  /\ run[c].pc = "writePost"
  /\ LET i == run[c].i
         f == run[c].posts[i]
         hasSha == HasSha(run[c], f)
     IN \E status \in WriteOutcomes(hasSha, f \in remotePosts) :
          /\ Charge(IF Injected(status) THEN 1 ELSE 0)
          /\ remotePosts' = IF Ok(status) THEN remotePosts \cup {f} ELSE remotePosts
          /\ LET r == Logged(RecordPostWrite(run[c], f, hasSha, status),
                             <<Req("PUT", "_posts", f, hasSha, status)>>)
                 pc == AfterPostPc(r, i, status)
             IN Goto(c, [r EXCEPT !.i = IF pc = "delay" THEN i ELSE i + 1], pc)
  /\ UNCHANGED <<client, now, lastGitHubActionTime, overridden, local, apiRepo, remoteSite,
                 pagesEnabled>>

\* The 300 ms timer between two posts fires.
DelaySettles(c) ==
  /\ run[c].pc = "delay"
  /\ Goto(c, Logged([run[c] EXCEPT !.i = @ + 1],
                     <<Req("timer", "300", 0, FALSE, 200)>>), "writePost")
  /\ UNCHANGED <<client, now, lastGitHubActionTime, overridden, local, apiRepo, remote, faultsLeft, overridden>>

\* enableGitHubPages as one queued function: the requests it issues for the
\* statuses the store answers with (g1: read of the target, pMain/pMaster:
\* the create requests, g2: the final read), and what it returns.
EnableGitHubPages(g1, pMain, pMaster, g2) ==
  LET current == Ok(g1)
      tryMaster == ~current /\ pMain = 422
      enabled == current \/ Ok(pMain) \/ (tryMaster /\ Ok(pMaster))
      thrown == IF ~enabled THEN (IF tryMaster THEN pMaster ELSE pMain) ELSE g2
      l1 == <<Req("GET", "pages", 0, FALSE, g1)>>
      l2 == IF current THEN l1
            ELSE Append(l1, Req("POST", "pages/main", 0, FALSE, pMain))
      l3 == IF tryMaster
            THEN Append(l2, Req("POST", "pages/master", 0, FALSE, pMaster))
            ELSE l2
      l4 == IF enabled THEN Append(l3, Req("GET", "pages", 0, FALSE, g2)) ELSE l3
  IN [log |-> l4,
      ok |-> enabled /\ Ok(g2),
      created |-> ~current /\ enabled,
      msg |-> IF thrown = 404
              THEN "Repository not found or Pages not available for this repository"
              ELSE "Failed to enable GitHub Pages"]

\* The statuses the store can answer enableGitHubPages with; a request that
\* is not issued has status 0.
EnableInputs ==
  {in \in [g1 : IF pagesEnabled THEN {200, 500} ELSE {404, 500},
           pMain : IF pagesEnabled THEN {0, 409} ELSE {0, 201, 422, 500},
           pMaster : {0, 201, 500},
           g2 : {0, 200, 500}] :
     LET current == Ok(in.g1)
         tryMaster == ~current /\ in.pMain = 422
         enabled == current \/ Ok(in.pMain) \/ (tryMaster /\ Ok(in.pMaster))
     IN /\ (in.pMain = 0) = current
        /\ (in.pMaster = 0) = ~tryMaster
        /\ (in.g2 = 0) = ~enabled}

Injections(log) == Cardinality({k \in 1..Len(log) : log[k].status = 500})

BuildGuard_Always(errors) == TRUE

\* The guard of the build trigger: no error recorded so far.
BuildGuard(errors) == Len(errors) = 0

\* Step 6, first half: enableGitHubPages settles.
EnableGitHubPagesSettles(c) ==
  /\ run[c].pc = "enableGitHubPages"
  /\ \E in \in EnableInputs :
       LET e == EnableGitHubPages(in.g1, in.pMain, in.pMaster, in.g2)
           r == Logged(run[c], e.log)
       IN /\ Charge(Injections(e.log))
          /\ pagesEnabled' = (pagesEnabled \/ e.created)
          /\ IF e.ok
             THEN Goto(c, [r EXCEPT !.pagesUrl = "url"],
                       IF BuildGuard(r.errors) THEN "triggerPagesBuildIfNeeded"
                       ELSE "saveSettings")
             ELSE Goto(c, [r EXCEPT !.errors = Append(@, Err("Pages setup", 0, e.msg))],
                       "saveSettings")
  /\ UNCHANGED <<client, now, lastGitHubActionTime, overridden, local, apiRepo, remoteSite,
                 remotePosts>>

\* The newest build of the listing: n = 0 for an empty list, else its status
\* and the time since its created_at.
BuildInfos ==
  {NoInfo} \cup [n : {1}, status : {"building"}, age : {30000, 120000, 180000}]
           \cup [n : {1}, status : {"built", "errored"}, age : {30000}]

ShouldTrigger_WindowInclusive(info) ==
  ~(info.n > 0 /\ info.age <= BUILD_RECENT_WINDOW
               /\ (info.status = "building" \/ info.status = "built"))

\* The decision of triggerPagesBuildIfNeeded on the listing it read.
ShouldTrigger(info) ==
  ~(info.n > 0 /\ info.age < BUILD_RECENT_WINDOW
               /\ (info.status = "building" \/ info.status = "built"))

\* triggerPagesBuildIfNeeded as one queued function.
TriggerPagesBuildIfNeeded(g, info, p) ==
  LET l1 == <<[Req("GET", "pages/builds", 0, FALSE, g) EXCEPT !.info = info]>>
      post == Ok(g) /\ ShouldTrigger(info)
      thrown == IF ~Ok(g) THEN g ELSE p
  IN [log |-> IF post THEN Append(l1, Req("POST", "pages/builds", 0, FALSE, p)) ELSE l1,
      ok |-> Ok(g) /\ (post => Ok(p)),
      msg |-> IF thrown = 404 THEN "GitHub Pages not enabled for this repository"
              ELSE "Failed to trigger Pages build"]

BuildInputs ==
  {in \in [g : {200, 500}, info : BuildInfos, p : {0, 201, 500}] :
     /\ (in.p = 0) = ~(Ok(in.g) /\ ShouldTrigger(in.info))
     /\ (~Ok(in.g) => in.info = NoInfo)}

\* Step 6, second half: triggerPagesBuildIfNeeded settles.
TriggerPagesBuildSettles(c) ==
  /\ run[c].pc = "triggerPagesBuildIfNeeded"
  /\ \E in \in BuildInputs :
       LET b == TriggerPagesBuildIfNeeded(in.g, in.info, in.p)
           r == Logged(run[c], b.log)
       IN /\ Charge(Injections(b.log))
          /\ IF b.ok
             THEN Goto(c, r, "saveSettings")
             ELSE Goto(c, [r EXCEPT !.errors = Append(@, Err("Pages setup", 0, b.msg))],
                       "saveSettings")
  /\ UNCHANGED <<client, now, lastGitHubActionTime, overridden, local, apiRepo, remote>>

\* localStorageService.saveSettings settles: the run returns its counts, or
\* the outer catch turns the exception into the failure result.
SaveSettingsSettles(c) ==
  /\ run[c].pc = "saveSettings"
  /\ \E thrown \in BOOLEAN :
       /\ Charge(IF thrown THEN 1 ELSE 0)
       /\ LET r == Logged(run[c], <<Req("local", "saveSettings", 0, FALSE,
                                        IF thrown THEN 500 ELSE 200)>>)
          IN IF thrown
             THEN /\ Return(c, r, PublishFailedResult("Failed to save settings locally"))
                  /\ UNCHANGED settings
             ELSE /\ Return(c, r, PublishedResult(r))
                  /\ settings' = [syncEnabled |-> TRUE, lastSync |-> "date"]
  /\ UNCHANGED <<client, now, lastGitHubActionTime, overridden, config, localPosts, apiRepo, remote,
                 jekyllConfig, homepageConfig>>

\* ------------------------------------------- GitHubApiService.requestQueue
\* requestQueue is a chain of promises, one link per call of queueRequest; the
\* chain starts from Promise.resolve().  A link records the state of its
\* promise, how often its request function was executed and the call whose
\* outcome the promise settled with.
PendingCall == [state |-> "pending", ran |-> 0, value |-> 0]

Settled(link) == link.state \in {"fulfilled", "rejected"}

PredecessorSettled_Unchained(q, k) == TRUE

\* The handlers of link k are registered with then() on the promise that was
\* requestQueue when the call was queued: they run once that promise settles.
PredecessorSettled(q, k) == IF k = 1 THEN TRUE ELSE Settled(q[k - 1])

OnSettled_NoRejectionHandler(q, k) ==
  IF k > 1 /\ q[k - 1].state = "rejected"
  THEN [q[k] EXCEPT !.state = "rejected", !.value = q[k - 1].value]
  ELSE [q[k] EXCEPT !.state = "running", !.ran = @ + 1]

\* then(onFulfilled, onRejected): both handlers execute the request function
\* of the link, whatever the predecessor settled with.
OnSettled(q, k) == [q[k] EXCEPT !.state = "running", !.ran = @ + 1]

\* queueRequest(requestFn): a link is appended and returned to the caller.
QueueRequest ==
  /\ Len(requestQueue) < MaxCalls
  /\ requestQueue' = Append(requestQueue, PendingCall)
  /\ UNCHANGED <<publish, sanitizer, pacing, apiConfig, storage, sync>>

\* The handler of a link runs: the request function is started.
RequestStarts ==
  /\ \E k \in 1..Len(requestQueue) :
       /\ requestQueue[k].state = "pending"
       /\ PredecessorSettled(requestQueue, k)
       /\ requestQueue' = [requestQueue EXCEPT ![k] = OnSettled(requestQueue, k)]
  /\ UNCHANGED <<publish, sanitizer, pacing, apiConfig, storage, sync>>

\* A request function settles; the promise of its link takes its outcome.
RequestSettles ==
  /\ \E k \in 1..Len(requestQueue), ok \in BOOLEAN :
       /\ requestQueue[k].state = "running"
       /\ requestQueue' = [requestQueue EXCEPT ![k] =
                             [@ EXCEPT !.state = IF ok THEN "fulfilled" ELSE "rejected",
                                       !.value = k]]
  /\ UNCHANGED <<publish, sanitizer, pacing, apiConfig, storage, sync>>

\* ------------------------------------------------- SyncService.syncToGitHub
\* The locals of a call of syncToGitHub, its position, the requests it has
\* made and the result it returned.
IdleSync ==
  [pc |-> "idle", i |-> 0, posts |-> <<>>, synced |-> 0, errors |-> <<>>,
   log |-> <<>>, result |-> NoResult]

\* What a step of syncToGitHub leaves alone besides the variables it names.
syncFrame ==
  <<requestQueue, sanitizer, pacing, apiConfig, storage, now, gate, config,
    localPosts, jekyllConfig, homepageConfig, remoteSite, pagesEnabled, overridden, run>>

\* The outer catch of syncToGitHub.
SyncFailedResult(msg) == Result(FALSE, "Sync failed", 0, <<Err("", 0, msg)>>, 0, "")

SyncReturns(r, res) == sync' = [r EXCEPT !.pc = "returned", !.result = res]

\* After post i: the next post, or the settings are saved.
SyncNext(r) ==
  IF r.i < Len(r.posts) THEN [r EXCEPT !.i = @ + 1, !.pc = "getPost"]
  ELSE [r EXCEPT !.pc = "saveSettings"]

SyncToGitHubCalled ==
  /\ sync.pc = "idle"
  /\ sync' = [sync EXCEPT !.pc = "getConfig"]
  /\ UNCHANGED <<syncFrame, apiRepo, remotePosts, settings, faultsLeft>>

\* getConfig settles; setApiConfig is called with the stored URL and
\* testConnection is started.
SyncGetConfigSettles ==
  /\ sync.pc = "getConfig"
  /\ \E thrown \in BOOLEAN :
       /\ Charge(IF thrown THEN 1 ELSE 0)
       /\ IF thrown
          THEN SyncReturns(sync, SyncFailedResult("Failed to load configuration"))
               /\ UNCHANGED apiRepo
          ELSE IF config = "empty"
          THEN SyncReturns(sync, NotConfiguredResult) /\ UNCHANGED apiRepo
          ELSE IF config = "badurl"
          THEN SyncReturns(sync, SyncFailedResult("Invalid GitHub repository URL"))
               /\ UNCHANGED apiRepo
          ELSE sync' = [sync EXCEPT !.pc = "testConnection"] /\ apiRepo' = "owner/repo"
  /\ UNCHANGED <<syncFrame, remotePosts, settings>>

\* testConnection settles; the local posts are read.
SyncTestConnectionSettles ==
  /\ sync.pc = "testConnection"
  /\ \E status \in {200, 401, 404, 500} :
       /\ Charge(IF Ok(status) THEN 0 ELSE 1)
       /\ LET r == [sync EXCEPT !.log = Append(@, Req("GET", "repo", 0, FALSE, status))]
          IN IF ConnectionFailed(status)
             THEN SyncReturns(r, SyncFailedResult(TestConnectionMessage(status)))
             ELSE sync' = [r EXCEPT !.pc = "getPosts"]
  /\ UNCHANGED <<syncFrame, apiRepo, remotePosts, settings>>

\* localStorageService.getPosts settles: nothing to sync, or the loop starts
\* with getPost of the first post.
SyncGetPostsSettles ==
  /\ sync.pc = "getPosts"
  /\ IF localPosts = <<>>
     THEN SyncReturns(sync, Result(TRUE, "No posts to sync", 0, <<>>, 0, ""))
     ELSE sync' = [sync EXCEPT !.posts = localPosts, !.i = 1, !.pc = "getPost"]
  /\ UNCHANGED <<syncFrame, apiRepo, remotePosts, settings, faultsLeft>>

\* getPost settles: updatePost with the sha read, or, in the catch of the
\* inner try, createPost.
SyncGetPostSettles ==
  /\ sync.pc = "getPost"
  /\ LET f == sync.posts[sync.i]
     IN \E status \in (IF f \in remotePosts THEN {200, 500} ELSE {404, 500}) :
          /\ Charge(IF Injected(status) THEN 1 ELSE 0)
          /\ sync' = [sync EXCEPT !.log = Append(@, Req("GET", "_posts", f, FALSE, status)),
                                  !.pc = IF Ok(status) THEN "updatePost" ELSE "createPost"]
  /\ UNCHANGED <<syncFrame, apiRepo, remotePosts, settings>>

\* updatePost is awaited inside the inner try, whose catch calls createPost.
SyncAfterFailedUpdate(r, f, status) == [r EXCEPT !.pc = "createPost"]

\* updatePost settles.
SyncUpdatePostSettles ==
  /\ sync.pc = "updatePost"
  /\ LET f == sync.posts[sync.i]
     IN \E status \in WriteOutcomes(TRUE, f \in remotePosts) :
          /\ Charge(IF Injected(status) THEN 1 ELSE 0)
          /\ LET r == [sync EXCEPT !.log = Append(@, Req("PUT", "_posts", f, TRUE, status))]
             IN sync' = IF Ok(status)
                        THEN SyncNext([r EXCEPT !.synced = @ + 1])
                        ELSE SyncAfterFailedUpdate(r, f, status)
  /\ UNCHANGED <<syncFrame, apiRepo, remotePosts, settings>>

\* createPost settles: its failure is the error recorded for the post.
SyncCreatePostSettles ==
  /\ sync.pc = "createPost"
  /\ LET f == sync.posts[sync.i]
     IN \E status \in WriteOutcomes(FALSE, f \in remotePosts) :
          /\ Charge(IF Injected(status) THEN 1 ELSE 0)
          /\ remotePosts' = IF Ok(status) THEN remotePosts \cup {f} ELSE remotePosts
          /\ LET r == [sync EXCEPT !.log = Append(@, Req("PUT", "_posts", f, FALSE, status))]
             IN sync' = IF Ok(status)
                        THEN SyncNext([r EXCEPT !.synced = @ + 1])
                        ELSE SyncNext([r EXCEPT !.errors =
                                         Append(@, Err("Failed to sync", f,
                                                       PostWriteMessage(FALSE, status)))])
  /\ UNCHANGED <<syncFrame, apiRepo, settings>>

\* saveSettings settles and the call returns.
SyncSaveSettingsSettles ==
  /\ sync.pc = "saveSettings"
  /\ \E thrown \in BOOLEAN :
       /\ Charge(IF thrown THEN 1 ELSE 0)
       /\ IF thrown
          THEN /\ SyncReturns(sync, SyncFailedResult("Failed to save settings locally"))
               /\ UNCHANGED settings
          ELSE /\ SyncReturns(sync, Result(Len(sync.errors) = 0, "Synced", sync.synced,
                                           sync.errors, 0, ""))
               /\ settings' = [syncEnabled |-> TRUE, lastSync |-> "date"]
  /\ UNCHANGED <<syncFrame, apiRepo, remotePosts>>

\* ------------------------------------------------------ LocalStorageService
\* A stored post is its filename and its content; the content a call saves
\* is named after the call.  A call is idle, has started its read
\* ("reading"), holds the list it read ("writing"), or has completed.
Ops == 1..MaxOps
StoredPost(f, content) == [filename |-> f, content |-> content]
IdleOp == [pc |-> "idle", kind |-> "", filename |-> 0, posts |-> <<>>, wrote |-> 0]

\* Nothing is stored and no call has been made.
EmptyStorage == [posts |-> <<>>, ops |-> [o \in Ops |-> IdleOp], writes |-> 0]

\* The lists syncFromGitHub imports: the posts of a remote listing.
ImportLists == {<<>>, <<StoredPost(1, 0)>>}

\* savePost on the list it read: replace the post of the filename or append.
Upsert(posts, post) ==
  IF \E k \in 1..Len(posts) : posts[k].filename = post.filename
  THEN LET existingIndex == CHOOSE k \in 1..Len(posts) :
                              /\ posts[k].filename = post.filename
                              /\ \A j \in 1..(k - 1) : posts[j].filename # post.filename
       IN [posts EXCEPT ![existingIndex] = post]
  ELSE Append(posts, post)

\* deletePost on the list it read.
WithoutFile(posts, f) == SelectSeq(posts, LAMBDA p : p.filename # f)

\* savePost(post) or deletePost(filename) is called: getPosts is awaited.
StorageOpCalled ==
  /\ \E o \in Ops, kind \in {"savePost", "deletePost"}, f \in Filenames :
       /\ storage.ops[o].pc = "idle"
       /\ storage' = [storage EXCEPT !.ops[o] =
                        [IdleOp EXCEPT !.pc = "reading", !.kind = kind, !.filename = f]]
  /\ UNCHANGED <<publish, requestQueue, sanitizer, pacing, apiConfig, sync>>

\* importPosts(posts) is called: setItem is awaited with the list given.
ImportPostsCalled ==
  /\ \E o \in Ops, posts \in ImportLists :
       /\ storage.ops[o].pc = "idle"
       /\ storage' = [storage EXCEPT !.ops[o] =
                        [IdleOp EXCEPT !.pc = "writing", !.kind = "importPosts",
                                       !.posts = posts]]
  /\ UNCHANGED <<publish, requestQueue, sanitizer, pacing, apiConfig, sync>>

\* getItem settles: the call computes the list it will store.
GetItemSettles ==
  /\ \E o \in Ops :
       /\ storage.ops[o].pc = "reading"
       /\ LET op == storage.ops[o]
              posts == IF op.kind = "savePost"
                       THEN Upsert(storage.posts, StoredPost(op.filename, o))
                       ELSE WithoutFile(storage.posts, op.filename)
          IN storage' = [storage EXCEPT !.ops[o] =
                           [op EXCEPT !.pc = "writing", !.posts = posts]]
  /\ UNCHANGED <<publish, requestQueue, sanitizer, pacing, apiConfig, sync>>

\* setItem settles: the list of the call replaces what is stored, and the
\* call completes.
SetItemSettles ==
  /\ \E o \in Ops :
       /\ storage.ops[o].pc = "writing"
       /\ storage' = [storage EXCEPT !.posts = storage.ops[o].posts,
                                      !.writes = @ + 1,
                                      !.ops[o] = [@ EXCEPT !.pc = "completed",
                                                           !.wrote = storage.writes + 1]]
  /\ UNCHANGED <<publish, requestQueue, sanitizer, pacing, apiConfig, sync>>

\* ------------------------------------------- GitHubApiService.setApiConfig
\* A repository name is a sequence of pieces of text, none of which contains
\* '.git' except the piece ".git" itself: 'user.github.io' is
\* <<"user", ".git", "hub.io">> and 'user.git' is <<"user", ".git">>.
NamePieces == {"user", ".git", "hub.io"}
RepoNames == UNION {[1..n -> NamePieces] : n \in 1..MaxNameLen}

\* A URL either contains github.com/<owner>/<name> or does not.
NoMatch == [matches |-> FALSE, owner |-> "", name |-> <<>>]
Urls == {NoMatch} \cup [matches : {TRUE}, owner : {"user", "org"}, name : RepoNames]
Tokens == {"t1", "t2"}

\* String.replace(pattern, '') with a string pattern removes the first
\* occurrence of the pattern.
RemoveFirst(name, piece) ==
  IF \E k \in 1..Len(name) : name[k] = piece
  THEN LET first == CHOOSE k \in 1..Len(name) :
                      name[k] = piece /\ \A j \in 1..(k - 1) : name[j] # piece
       IN SubSeq(name, 1, first - 1) \o SubSeq(name, first + 1, Len(name))
  ELSE name

\* parseRepoUrl on a URL that matches: match[1] and match[2].replace('.git', '').
parseRepoUrl(url) == [owner |-> url.owner, repo |-> RemoveFirst(url.name, ".git")]

\* The client before the first setApiConfig.
Unconfigured ==
  [owner |-> "", repo |-> <<>>, token |-> "", url |-> <<>>, argToken |-> "",
   thrown |-> FALSE]

\* setApiConfig({repoUrl, token}): parseRepoUrl throws before any field is
\* assigned; otherwise owner, repo and token are stored.
SetApiConfig ==
  /\ \E url \in Urls, token \in Tokens :
       apiConfig' =
         IF url.matches
         THEN [owner |-> parseRepoUrl(url).owner, repo |-> parseRepoUrl(url).repo,
               token |-> token, url |-> url, argToken |-> token, thrown |-> FALSE]
         ELSE [apiConfig EXCEPT !.url = url, !.argToken = token, !.thrown = TRUE]
  /\ UNCHANGED <<publish, requestQueue, sanitizer, pacing, storage, sync>>

\* --------------------------------- GitHubApiService: the request interceptor
InterceptorDelay_None(n, last) == 0

\* The time the interceptor sleeps before it lets a request go out.
InterceptorDelay(n, last) ==
  IF n - last < MIN_REQUEST_INTERVAL THEN MIN_REQUEST_INTERVAL - (n - last) ELSE 0

\* The request of link k goes out: lastRequestTime = Date.now().
Dispatched(p, k) ==
  [p EXCEPT !.lastRequestTime = now,
            !.stage[k] = "sent",
            !.previous = p.latest,
            !.latest = now,
            !.sent = IF p.sent < 2 THEN p.sent + 1 ELSE 2]

\* The request function of link k calls this.api: the interceptor reads the
\* clock and either lets the request go out or starts its timer.
InterceptorRuns ==
  /\ \E k \in 1..Len(requestQueue) :
       /\ requestQueue[k].state = "running"
       /\ pacing.stage[k] = "none"
       /\ LET delay == InterceptorDelay(now, pacing.lastRequestTime)
          IN pacing' = IF delay > 0
                       THEN [pacing EXCEPT !.stage[k] = "sleeping", !.wake[k] = now + delay]
                       ELSE Dispatched(pacing, k)
  /\ UNCHANGED <<publish, requestQueue, sanitizer, apiConfig, storage, sync>>

\* The timer of the interceptor fires, at its time or later.
TimerFires ==
  /\ \E k \in 1..Len(requestQueue) :
       /\ pacing.stage[k] = "sleeping"
       /\ now >= pacing.wake[k]
       /\ pacing' = Dispatched(pacing, k)
  /\ UNCHANGED <<publish, requestQueue, sanitizer, apiConfig, storage, sync>>

\* The response of a request that went out arrives (or its timeout expires):
\* the request function of its link settles.
ResponseArrives ==
  /\ RequestSettles
  /\ \E k \in 1..Len(requestQueue) :
       /\ requestQueue'[k] # requestQueue[k]
       /\ pacing.stage[k] = "sent"

\* The clock advances in steps of a tenth of a second.
PacingTick ==
  /\ now + PacingStep <= StartTime + MaxPacingSteps * PacingStep
  /\ now' = now + PacingStep
  /\ UNCHANGED <<client, gate, local, apiRepo, remote, faultsLeft, overridden, run>>

\* ------------------------------------------ GitHubApiService.sanitizeContent
\* A text is a sequence of characters.  One character stands for each class
\* the function tells apart: "a" a printable ASCII character, LF, CR, TAB,
\* BOM (U+FEFF), NUL a control character, U+FFFE a character of the range
\* U+FFF0-U+FFFF, e-acute a transliterated letter, ellipsis, and CJK any
\* other non-ASCII character.
Chars == {"a", "LF", "CR", "TAB", "BOM", "NUL", "U+FFFE", "e-acute", "ellipsis", "CJK"}

Texts == UNION {[1..n -> Chars] : n \in 0..MaxLen}

\* [\x20-\x7E]
Printable == {"a", "e", "."}

\* content.replace(/^\uFEFF/, '')
StripLeadingBom(s) == IF Len(s) > 0 /\ s[1] = "BOM" THEN Tail(s) ELSE s

RECURSIVE NormalizeLineEndings_CrLfOnly(_)
NormalizeLineEndings_CrLfOnly(s) ==
  IF Len(s) = 0 THEN <<>>
  ELSE IF Len(s) >= 2 /\ s[1] = "CR" /\ s[2] = "LF"
  THEN <<"LF">> \o NormalizeLineEndings_CrLfOnly(Tail(Tail(s)))
  ELSE <<s[1]>> \o NormalizeLineEndings_CrLfOnly(Tail(s))

\* content.replace(/\r\n/g, '\n').replace(/\r/g, '\n')
RECURSIVE NormalizeLineEndings(_)
NormalizeLineEndings(s) ==
  IF Len(s) = 0 THEN <<>>
  ELSE IF Len(s) >= 2 /\ s[1] = "CR" /\ s[2] = "LF"
  THEN <<"LF">> \o NormalizeLineEndings(Tail(Tail(s)))
  ELSE IF s[1] = "CR" THEN <<"LF">> \o NormalizeLineEndings(Tail(s))
  ELSE <<s[1]>> \o NormalizeLineEndings(Tail(s))

\* content.replace(/[...]/g, '') for a class of characters
Remove(s, class) == SelectSeq(s, LAMBDA ch : ch \notin class)

\* The replacements by ASCII equivalents.
AsciiEquivalent(ch) ==
  IF ch = "e-acute" THEN <<"e">>
  ELSE IF ch = "ellipsis" THEN <<".", ".", ".">>
  ELSE <<ch>>

RECURSIVE Transliterate(_)
Transliterate(s) ==
  IF Len(s) = 0 THEN <<>> ELSE AsciiEquivalent(s[1]) \o Transliterate(Tail(s))

\* content.replace(/[^\x20-\x7E\n\r\t]/g, '')
KeepAscii(s) == SelectSeq(s, LAMBDA ch : ch \in Printable \cup {"LF", "CR", "TAB"})

\* if (!content.endsWith('\n')) content += '\n'
EnsureNewline(s) ==
  IF Len(s) > 0 /\ s[Len(s)] = "LF" THEN s ELSE Append(s, "LF")

sanitizeContent(content) ==
  IF content = <<>> THEN <<>>
  ELSE EnsureNewline(KeepAscii(Transliterate(
         Remove(Remove(NormalizeLineEndings(StripLeadingBom(content)),
                       {"NUL"}),
                {"U+FFFE"}))))

\* An update operation calls sanitizeContent on the text it is given.
SanitizeContentCalled ==
  /\ sanitizer.pc = "idle"
  /\ \E text \in Texts :
       sanitizer' = [pc |-> "called", content |-> text, payload |-> <<>>]
  /\ UNCHANGED <<publish, requestQueue, pacing, apiConfig, storage, sync>>

\* sanitizeContent returns the payload that is then base64-encoded.
SanitizeContentReturns ==
  /\ sanitizer.pc = "called"
  /\ sanitizer' = [sanitizer EXCEPT !.pc = "returned",
                                    !.payload = sanitizeContent(sanitizer.content)]
  /\ UNCHANGED <<publish, requestQueue, pacing, apiConfig, storage, sync>>

\* ------------------------------------------------------------- environment
\* GlobalStateManager.markGitHubActionTriggered
MarkGitHubActionTriggered ==
  /\ lastGitHubActionTime' = now
  /\ UNCHANGED <<client, now, isPublishing, publishingStartTime, local, apiRepo, remote,
                 faultsLeft, overridden, run>>

\* SyncService.resetCooldown
ResetCooldown ==
  /\ lastGitHubActionTime' = 0
  /\ isPublishing' = FALSE
  /\ publishingStartTime' = 0
  /\ overridden' = TRUE
  /\ UNCHANGED <<client, now, local, apiRepo, remote, faultsLeft, run>>

\* The clock advances.
AdvanceTime ==
  /\ now + Tick <= StartTime + MaxTicks * Tick
  /\ now' = now + Tick
  /\ UNCHANGED <<client, gate, local, apiRepo, remote, faultsLeft, overridden, run>>

\* The clock advances in steps of half a second.
ClockTick ==
  /\ now + CooldownStep <= StartTime + MaxCooldownSteps * CooldownStep
  /\ now' = now + CooldownStep
  /\ UNCHANGED <<client, gate, local, apiRepo, remote, faultsLeft, overridden, run>>

\* Another user of the shared client (the connection test of the settings
\* screen, with the URL typed into the form) calls setApiConfig.
SetApiConfigElsewhere ==
  /\ apiRepo # "other/repo"
  /\ apiRepo' = "other/repo"
  /\ UNCHANGED <<client, now, gate, local, remote, faultsLeft, overridden, run>>

\* ----------------------------------------------------------- specifications
InitProgram ==
  /\ now = StartTime
  /\ isPublishing = FALSE
  /\ publishingStartTime = 0
  /\ lastGitHubActionTime = 0
  /\ apiRepo = ""
  /\ settings = [syncEnabled |-> FALSE, lastSync |-> ""]
  /\ run = [c \in Callers |-> IdleRun]
  /\ overridden = FALSE
  /\ requestQueue = <<>>
  /\ sanitizer = IdleSanitizer
  /\ pacing = IdlePacing
  /\ apiConfig = Unconfigured
  /\ storage = EmptyStorage
  /\ sync = IdleSync
  /\ config \in {"valid", "empty", "badurl"}

\* Two callers, the clock and the gate operations, over a repository that
\* was published before and a store that injects no failure.
Init ==
  /\ InitProgram
  /\ localPosts = [k \in 1..MaxPosts |-> k]
  /\ remoteSite = SitePaths
  /\ remotePosts = Filenames
  /\ pagesEnabled = TRUE
  /\ faultsLeft = 0
  /\ jekyllConfig = "stored"
  /\ homepageConfig = "stored"

\* One call, from every local collection and every state of the repository.
InitRun ==
  /\ InitProgram
  /\ localPosts \in SeqsNoDup(Filenames, MaxPosts)
  /\ remoteSite \in {{}, SitePaths}
  /\ remotePosts \in SUBSET Filenames
  /\ pagesEnabled \in BOOLEAN
  /\ faultsLeft = MaxFaults
  /\ jekyllConfig \in {"absent", "stored"}
  /\ homepageConfig \in {"absent", "stored"}

\* The continuations of one call of publishAndRefreshGitHubPages.
Body(c) ==
  \/ GetConfigSettles(c)
  \/ TestConnectionSettles(c)
  \/ LoadLocalSettles(c)
  \/ FetchExistingSettles(c)
  \/ UpdateJekyllConfigSettles(c)
  \/ UpdateCssFileSettles(c)
  \/ UpdateDefaultLayoutSettles(c)
  \/ UpdateIndexPageSettles(c)
  \/ UpdateReadmeSettles(c)
  \/ GetPostsSettles(c)
  \/ PostWriteSettles(c)
  \/ DelaySettles(c)
  \/ EnableGitHubPagesSettles(c)
  \/ TriggerPagesBuildSettles(c)
  \/ SaveSettingsSettles(c)

Next ==
  \/ \E c \in Callers : Call(c)
  \/ \E c \in Callers : CallAgain(c)
  \/ \E c \in Callers : Body(c)
  \/ MarkGitHubActionTriggered
  \/ ResetCooldown
  \/ AdvanceTime

NextRun ==
  \/ Call("c1")
  \/ Body("c1")

Spec == Init /\ [][Next]_vars

SpecRun == InitRun /\ [][NextRun]_vars

\* The GitHub client alone, before any publish run.
InitClient ==
  /\ Init
  /\ config = "valid"

\* Calls of the client queued by any number of callers.  A handler whose
\* promise has settled is run by the event loop, and every request settles
\* (the HTTP client has a timeout).
NextQueue ==
  \/ QueueRequest
  \/ RequestStarts
  \/ RequestSettles

SpecQueue ==
  InitClient /\ [][NextQueue]_vars /\ WF_vars(RequestStarts) /\ WF_vars(RequestSettles)

NextSanitize ==
  \/ SanitizeContentCalled
  \/ SanitizeContentReturns

\* One call of sanitizeContent on every text of up to MaxLen characters.
SpecSanitize == InitClient /\ [][NextSanitize]_vars

\* The operations of GlobalStateManager on a clock fine enough to see the
\* seconds of the cooldown go by.
NextCooldown ==
  \/ MarkGitHubActionTriggered
  \/ ResetCooldown
  \/ ClockTick

SpecCooldown == InitClient /\ [][NextCooldown]_vars

\* A run on a configured client while the settings screen is open.
InitShared ==
  /\ InitRun
  /\ config = "valid"
  /\ localPosts = [k \in 1..MaxPosts |-> k]
  /\ remoteSite = SitePaths
  /\ jekyllConfig = "stored"
  /\ homepageConfig = "stored"

NextShared ==
  \/ NextRun
  \/ SetApiConfigElsewhere

SpecShared == InitShared /\ [][NextShared]_vars

\* Calls queued on the client at any time, each issuing one request, on a
\* clock fine enough to see the interval between two requests.
NextPacing ==
  \/ QueueRequest
  \/ RequestStarts
  \/ InterceptorRuns
  \/ TimerFires
  \/ ResponseArrives
  \/ PacingTick

SpecPacing == InitClient /\ [][NextPacing]_vars

\* One call of syncToGitHub, from every local collection and every state of
\* the repository.
NextSync ==
  \/ SyncToGitHubCalled
  \/ SyncGetConfigSettles
  \/ SyncTestConnectionSettles
  \/ SyncGetPostsSettles
  \/ SyncGetPostSettles
  \/ SyncUpdatePostSettles
  \/ SyncCreatePostSettles
  \/ SyncSaveSettingsSettles

InitSync ==
  /\ InitRun
  /\ jekyllConfig = "stored"
  /\ homepageConfig = "stored"

SpecSync == InitSync /\ [][NextSync]_vars

\* Up to MaxOps calls of the local store, overlapping in any way.
NextStorage ==
  \/ StorageOpCalled
  \/ ImportPostsCalled
  \/ GetItemSettles
  \/ SetItemSettles

SpecStorage == InitClient /\ [][NextStorage]_vars

\* Calls of setApiConfig with every URL and token.
NextConfig == SetApiConfig

SpecConfig == InitClient /\ [][NextConfig]_vars

\* One run from every configuration, every local collection and every state
\* of the repository.
InitLive ==
  /\ InitRun
  /\ jekyllConfig = "stored"
  /\ homepageConfig = "stored"

\* Every operation a run awaits settles and its continuation is run (the
\* HTTP client has a timeout, the event loop runs every ready handler).
SpecLive == InitLive /\ [][NextRun]_vars /\ WF_vars(Body("c1"))

\* ------------------------------------------------------------------ properties
InFlight(c) == run[c].pc \notin {"idle", "returned"}

\* Steps of caller c: a call (the gate ran), its two outcomes, and the return
\* of an admitted run.
CallStep(c) == run[c].pc \in {"idle", "returned"} /\ run'[c] # run[c]
DeniedStep(c) == CallStep(c) /\ run'[c].pc = "returned"
ReturnStep(c) == InFlight(c) /\ run'[c].pc = "returned"

Puts(log) == {k \in 1..Len(log) : log[k].op = "PUT"}
OkPuts(log) == {k \in Puts(log) : Ok(log[k].status)}
PostPuts(log) == {k \in Puts(log) : log[k].path = "_posts"}
FailedPostPuts(log) == {k \in PostPuts(log) : ~Ok(log[k].status)}
IsBuildsGet(e) == e.op = "GET" /\ e.path = "pages/builds"
IsBuildsPost(e) == e.op = "POST" /\ e.path = "pages/builds"
HasBuildPost(log) == \E k \in 1..Len(log) : IsBuildsPost(log[k])
PassedConnection(log) ==
  \E k \in 1..Len(log) : log[k].path = "repo" /\ Ok(log[k].status)

\* C1: in every reachable state at most one publish run is between its
\* admission by the gate and its return.
C1_AtMostOneInFlight ==
  Cardinality({c \in Callers : InFlight(c)}) <= 1

\* C2: while a run is in flight and fewer than 5 minutes have passed since it
\* was admitted, every other call returns the already-in-progress result with
\* synced = 0 and without any request, whatever the interleaving of the calls
\* (behaviours with a call of resetCooldown are left aside).
C2_OthersRejectedWhileInFlight ==
  [][\A c, d \in Callers :
       (c # d /\ CallStep(c) /\ InFlight(d) /\ ~overridden
               /\ now - run[d].admittedAt < PUBLISH_TIMEOUT)
       => /\ run'[c].pc = "returned"
          /\ run'[c].result = InProgressResult
          /\ run'[c].result.synced = 0
          /\ run'[c].log = <<>>]_vars

\* What the gate answers to a call made in a state with these fields.
GateAnswer(n, publishing, start, last) ==
  IF publishing /\ ~IsStale(n, start) THEN "in-progress"
  ELSE IF ~canTriggerGitHubAction(n, last) THEN "cooldown"
  ELSE "admitted"

\* C3: when an admitted run returns, whatever its outcome, the cooldown time
\* has been recorded: a call made right after the return is denied with the
\* cooldown-active result.
C3_CooldownActiveAfterReturn ==
  [][\A c \in Callers :
       ReturnStep(c)
       => GateAnswer(now', isPublishing', publishingStartTime',
                     lastGitHubActionTime') = "cooldown"]_vars

\* C4: whenever an admitted run returns, by any path, the lock is released:
\* isPublishing is false and publishingStartTime is 0 right after the return.
C4_LockReleasedAtReturn ==
  [][\A c \in Callers :
       ReturnStep(c) => (isPublishing' = FALSE /\ publishingStartTime' = 0)]_vars

\* An admitted run has returned through the outer catch and the lock is free.
C4_Witness ==
  \E c \in Callers :
    /\ run[c].pc = "returned" /\ run[c].admitted
    /\ run[c].result.message = "Publish failed"
    /\ ~isPublishing /\ publishingStartTime = 0

\* C5 (as claimed): a denied call issues no request, touches no local storage
\* and leaves isPublishing, publishingStartTime and the cooldown time as
\* they were.
C5_DeniedCallChangesNothing ==
  [][\A c \in Callers :
       DeniedStep(c)
       => /\ run'[c].log = <<>>
          /\ UNCHANGED <<local, remote, apiRepo>>
          /\ UNCHANGED <<isPublishing, publishingStartTime, lastGitHubActionTime>>]_vars

\* C5 (amended): a denied call issues no request, touches no local storage
\* and leaves the cooldown time as it was; it leaves the lock fields as they
\* were unless the lock was held and stale, and then it clears both.
C5_DeniedCallOnlyReclaims ==
  [][\A c \in Callers :
       DeniedStep(c)
       => /\ run'[c].log = <<>>
          /\ UNCHANGED <<local, remote, apiRepo, lastGitHubActionTime>>
          /\ IF isPublishing /\ now - publishingStartTime > PUBLISH_TIMEOUT
             THEN isPublishing' = FALSE /\ publishingStartTime' = 0
             ELSE UNCHANGED <<isPublishing, publishingStartTime>>]_vars

\* A call was denied by the cooldown after it had reclaimed a stale lock.
C5_Witness ==
  \E c \in Callers :
    /\ run[c].pc = "returned" /\ ~run[c].admitted /\ run[c].reclaimed
    /\ run[c].result.message = "Please wait before publishing again"
    /\ ~isPublishing /\ publishingStartTime = 0

\* C6: a call made while isPublishing is true is rejected as already in
\* progress exactly when now - publishingStartTime is at most 300000 ms;
\* beyond that the lock is reclaimed and the cooldown check decides.
C6_StaleLockReclaimed ==
  [][\A c \in Callers :
       (CallStep(c) /\ isPublishing)
       => IF now - publishingStartTime > PUBLISH_TIMEOUT
          THEN /\ run'[c].result # InProgressResult
               /\ IF now - lastGitHubActionTime >= GITHUB_ACTION_COOLDOWN
                  THEN run'[c].pc = "getConfig" /\ isPublishing' /\ publishingStartTime' = now
                  ELSE run'[c].pc = "returned"
                       /\ run'[c].result.message = "Please wait before publishing again"
          ELSE run'[c].pc = "returned" /\ run'[c].result = InProgressResult]_vars

\* A call was admitted over a lock that another run in flight still held.
C6_Witness ==
  \E c, d \in Callers :
    /\ c # d /\ InFlight(c) /\ run[c].reclaimed /\ InFlight(d)
    /\ publishingStartTime = run[c].admittedAt
    /\ run[c].admittedAt - run[d].admittedAt > PUBLISH_TIMEOUT

\* C7: in a run that completes and in which the write of exactly one post
\* fails, every local post was written exactly once, the other posts are
\* counted as synced, exactly one error is recorded for the posts, it names
\* the failed post, and the run returns success = false.
C7_OnePostFailureIsolated ==
  [][\A c \in Callers :
       (/\ ReturnStep(c)
        /\ run'[c].result.message = "Published"
        /\ Cardinality(FailedPostPuts(run[c].log)) = 1)
       => LET log == run[c].log
              res == run'[c].result
              failed == CHOOSE k \in FailedPostPuts(log) : TRUE
              postErrors == {k \in 1..Len(res.errors) : res.errors[k].tag = "Post"}
          IN /\ Cardinality(PostPuts(log)) = Len(run[c].posts)
             /\ {log[k].file : k \in PostPuts(log)} = Range(run[c].posts)
             /\ res.synced = Cardinality(OkPuts(log))
             /\ Cardinality(OkPuts(log) \cap PostPuts(log)) = Len(run[c].posts) - 1
             /\ Cardinality(postErrors) = 1
             /\ \A k \in postErrors : res.errors[k].file = log[failed].file
             /\ res.success = FALSE]_vars

\* A run over at least two posts returned with every site file written, the
\* first post failed and the later posts synced.
C7_Witness ==
  \E c \in Callers :
    /\ run[c].pc = "returned" /\ run[c].result.message = "Published"
    /\ Len(localPosts) >= 2
    /\ Len(run[c].result.errors) = 1
    /\ run[c].result.errors[1].tag = "Post"
    /\ run[c].result.errors[1].file = localPosts[1]
    /\ run[c].result.synced = Len(SiteFiles) + Len(localPosts) - 1
    /\ ~run[c].result.success

\* C8: a Pages build request is issued only in a run in which no content
\* write failed.
C8_NoBuildRequestAfterError ==
  \A c \in Callers :
    HasBuildPost(run[c].log)
    => \A k \in Puts(run[c].log) : Ok(run[c].log[k].status)

\* Pages was enabled in a run that had recorded an error, and no build
\* request went out.
C8_Witness ==
  \E c \in Callers :
    /\ run[c].pc = "saveSettings" /\ run[c].pagesUrl = "url"
    /\ \E k \in Puts(run[c].log) : ~Ok(run[c].log[k].status)
    /\ ~HasBuildPost(run[c].log)

\* C9: having read the list of builds, triggerPagesBuildIfNeeded posts a
\* build request if and only if the list is empty or the newest build is not
\* both 'building' or 'built' and started less than 120 seconds ago.
C9_TriggerDecision ==
  \A c \in Callers :
    \A k \in 1..Len(run[c].log) :
      LET log == run[c].log
          newest == log[k].info
      IN (IsBuildsGet(log[k]) /\ Ok(log[k].status))
         => ((k < Len(log) /\ IsBuildsPost(log[k + 1]))
             <=> (newest.n = 0
                  \/ ~(newest.status \in {"building", "built"} /\ newest.age < 120000)))

\* A 'building' build started 30 seconds ago suppressed the trigger.
C9_Witness ==
  \E c \in Callers :
    /\ run[c].pc = "saveSettings"
    /\ IsBuildsGet(run[c].log[Len(run[c].log)])
    /\ run[c].log[Len(run[c].log)].info = [n |-> 1, status |-> "building", age |-> 30000]

\* C10: a run that passed the connection test returns as its synced count the
\* number of content writes that succeeded, whatever happens afterwards.
C10_SyncedCountsSuccessfulWrites ==
  [][\A c \in Callers :
       (ReturnStep(c) /\ PassedConnection(run[c].log))
       => run'[c].result.synced = Cardinality(OkPuts(run[c].log))]_vars

\* C11: a call that issued at least one write request never returns a result
\* with the success flag, synced count and number of errors of a gate denial
\* (success = false, synced = 0, exactly one error).
C11_DenialResultOnlyFromGate ==
  [][\A c \in Callers :
       (ReturnStep(c) /\ Puts(run[c].log) # {})
       => ~(/\ run'[c].result.success = InProgressResult.success
            /\ run'[c].result.synced = InProgressResult.synced
            /\ Len(run'[c].result.errors) = Len(InProgressResult.errors))]_vars

Running(q) == {k \in 1..Len(q) : q[k].state = "running"}

\* C12: the queued request functions run one at a time and in submission
\* order: a function has started only if every function queued before it has
\* settled, so at most one is executing at any instant.
C12_QueueIsFifo ==
  /\ Cardinality(Running(requestQueue)) <= 1
  /\ \A k \in 1..Len(requestQueue) :
       requestQueue[k].state # "pending"
       => \A j \in 1..(k - 1) : Settled(requestQueue[j])

\* Three calls are queued: the first has failed, the second is executing and
\* the third waits.
C12_Witness ==
  /\ Len(requestQueue) >= 3
  /\ requestQueue[1].state = "rejected"
  /\ requestQueue[2].state = "running"
  /\ requestQueue[3].state = "pending"

\* C13: every queued call is executed exactly once, also after an earlier
\* call has failed, and its promise settles with the outcome of its own
\* request function, never with the result or error of another call.
C13_FailureIsolated ==
  /\ [](\A k \in 1..Len(requestQueue) :
          /\ requestQueue[k].ran <= 1
          /\ Settled(requestQueue[k])
             => (requestQueue[k].ran = 1 /\ requestQueue[k].value = k))
  /\ \A k \in 1..MaxCalls :
       [](Len(requestQueue) >= k
          => <>(Len(requestQueue) >= k /\ Settled(requestQueue[k])
                                       /\ requestQueue[k].ran = 1))

\* The first call failed; the second ran once and succeeded with its own result.
C13_Witness ==
  /\ Len(requestQueue) >= 2
  /\ requestQueue[1].state = "rejected" /\ requestQueue[1].value = 1
  /\ requestQueue[2].state = "fulfilled" /\ requestQueue[2].value = 2
  /\ requestQueue[2].ran = 1

\* The newlines at the end of a text.
RECURSIVE TrailingNewlines(_)
TrailingNewlines(s) ==
  IF Len(s) > 0 /\ s[Len(s)] = "LF"
  THEN 1 + TrailingNewlines(SubSeq(s, 1, Len(s) - 1))
  ELSE 0

\* C14 (as claimed): for every input text the payload of sanitizeContent
\* contains only printable ASCII, newline and tab, contains no carriage
\* return, and ends with exactly one trailing newline.
C14_PayloadAsciiOneNewline ==
  sanitizer.pc = "returned"
  => /\ \A k \in 1..Len(sanitizer.payload) :
          sanitizer.payload[k] \in Printable \cup {"LF", "TAB"}
     /\ TrailingNewlines(sanitizer.payload) = 1

\* C14 (amended): the payload contains only printable ASCII, newline and tab
\* and no carriage return; for a non-empty input it ends with a newline, and
\* for the empty input it is empty.
C14_PayloadAsciiEndsWithNewline ==
  sanitizer.pc = "returned"
  => /\ \A k \in 1..Len(sanitizer.payload) :
          sanitizer.payload[k] \in Printable \cup {"LF", "TAB"}
     /\ IF sanitizer.content = <<>>
        THEN sanitizer.payload = <<>>
        ELSE TrailingNewlines(sanitizer.payload) >= 1

\* A text of a carriage return and a non-ASCII character was reduced to a
\* single newline.
C14_Witness ==
  /\ sanitizer.pc = "returned"
  /\ sanitizer.content = <<"CR", "CJK">>
  /\ sanitizer.payload = <<"LF">>

\* The configuration, homepage and README files.
CoreFiles == {"_config.yml", "index.md", "README.md"}

\* C15: a failed read of the remote configuration, homepage or README does
\* not abort the run, and the write of that artifact carries no revision
\* token exactly when the remote file does not exist (and the token that was
\* read when it exists).
C15_CreateExactlyWhenAbsent ==
  [][\A c \in Callers :
       /\ run[c].pc = "fetchExisting" /\ run'[c] # run[c]
          => run'[c].pc = "updateJekyllConfig"
       /\ (/\ InFlight(c) /\ InFlight(c)'
           /\ Len(run'[c].log) = Len(run[c].log) + 1
           /\ run'[c].log[Len(run'[c].log)].op = "PUT"
           /\ run'[c].log[Len(run'[c].log)].path \in CoreFiles)
          => LET put == run'[c].log[Len(run'[c].log)]
             IN put.sha <=> put.path \in remoteSite]_vars

\* A log entry of the preamble of a run: the load of the configuration or
\* the connection test.
IsPreamble(e) ==
  (e.op = "local" /\ e.path = "getConfig") \/ (e.op = "GET" /\ e.path = "repo")

\* C16: when the configuration is missing, the repository URL is invalid or
\* the connection test fails, the run returns success = false, synced = 0 and
\* a single error, having issued no read of content, no write, no Pages
\* request and no build request; a run goes past the connection test only
\* with a valid configuration and a successful test.
C16_ConfigurationErrorsAbort ==
  [][\A c \in Callers :
       /\ (ReturnStep(c) /\ run[c].pc \in {"getConfig", "testConnection"})
          => /\ run'[c].result.success = FALSE
             /\ run'[c].result.synced = 0
             /\ Len(run'[c].result.errors) = 1
             /\ \A k \in 1..Len(run[c].log) : IsPreamble(run[c].log[k])
             /\ UNCHANGED remote
       /\ (run[c].pc = "getConfig" /\ InFlight(c)' /\ run'[c] # run[c])
          => (config = "valid" /\ run'[c].pc = "testConnection")
       /\ (run[c].pc = "testConnection" /\ InFlight(c)' /\ run'[c] # run[c])
          => LET last == run'[c].log[Len(run'[c].log)]
             IN last.path = "repo" /\ Ok(last.status)
       /\ (InFlight(c) /\ run[c].pc \notin {"getConfig", "testConnection"})
          => /\ config = "valid"
             /\ \E k \in 1..Len(run[c].log) :
                  run[c].log[k].path = "repo" /\ Ok(run[c].log[k].status)]_vars

\* A run was admitted and returned the failure of the connection test on a
\* repository that does not exist, leaving the remote state as it was.
C16_Witness ==
  \E c \in Callers :
    /\ run[c].pc = "returned" /\ run[c].admitted
    /\ run[c].result.success = FALSE /\ run[c].result.synced = 0
    /\ Len(run[c].result.errors) = 1
    /\ run[c].result.errors[1].msg = "Repository not found"

SiteIndex(path) == CHOOSE k \in 1..Len(SiteFiles) : SiteFiles[k] = path

\* The error the operation behind a write reports when the write fails for a
\* reason other than a stale revision token (HTTP 500).
OtherFailureMessage(put) ==
  IF put.path = "_posts" THEN PostWriteMessage(put.sha, 500)
  ELSE SiteWriteMessage(SiteIndex(put.path))

\* C17: when a write that carries a revision token (updatePost,
\* updateJekyllConfig, updateIndexPage, updateReadme) is rejected with
\* HTTP 409, the error it reports differs from the error the same operation
\* reports for any other failure.
C17_ConflictReportedDistinctly ==
  [][\A c \in Callers :
       (/\ InFlight(c) /\ InFlight(c)'
        /\ Len(run'[c].log) = Len(run[c].log) + 1
        /\ run'[c].log[Len(run'[c].log)].op = "PUT"
        /\ run'[c].log[Len(run'[c].log)].path \in CoreFiles \cup {"_posts"}
        /\ run'[c].log[Len(run'[c].log)].sha
        /\ run'[c].log[Len(run'[c].log)].status = 409)
       => /\ Len(run'[c].errors) = Len(run[c].errors) + 1
          /\ run'[c].errors[Len(run'[c].errors)].msg
               # OtherFailureMessage(run'[c].log[Len(run'[c].log)])]_vars

\* The requests of enableGitHubPages in a log, in order.
PagesLog(log) ==
  SelectSeq(log, LAMBDA e : e.path \in {"pages", "pages/main", "pages/master"})

IsPagesGet(e) == e.op = "GET" /\ e.path = "pages"
IsCreateOn(e, branch) == e.op = "POST" /\ e.path = branch

\* What enableGitHubPages did in a run, given whether it took the target to
\* exist: no create request and the URL of the target when it did; otherwise
\* a create on 'main', followed by a create on 'master' only after a 422, by
\* nothing after another rejection, and by the read of the URL after a success.
EnableFollowsBranchOrder(r, exists) ==
  LET q == PagesLog(r.log)
  IN /\ IsPagesGet(q[1])
     /\ IF exists
        THEN /\ Len(q) = 2 /\ IsPagesGet(q[2])
             /\ Ok(q[2].status) => r.pagesUrl = "url"
        ELSE /\ Len(q) >= 2 /\ IsCreateOn(q[2], "pages/main")
             /\ IF Ok(q[2].status)
                THEN Len(q) = 3 /\ IsPagesGet(q[3])
                ELSE IF q[2].status = 422
                THEN /\ Len(q) >= 3 /\ IsCreateOn(q[3], "pages/master")
                     /\ IF Ok(q[3].status)
                        THEN Len(q) = 4 /\ IsPagesGet(q[4])
                        ELSE Len(q) = 3 /\ r.pagesUrl = ""
                ELSE Len(q) = 2 /\ r.pagesUrl = ""

\* The Pages target existed when enableGitHubPages was called in this run.
ExistedBefore(r) ==
  pagesEnabled /\ ~\E k \in 1..Len(r.log) : r.log[k].op = "POST" /\ Ok(r.log[k].status)
                                            /\ r.log[k].path \in {"pages/main", "pages/master"}

\* C18: when the Pages target already exists enableGitHubPages
\* issues no create request and returns the existing URL; when it is absent
\* it requests creation on 'main' and, only if that is rejected with 422, on
\* 'master'; a successful 'main' is never followed by 'master', and any other
\* rejection of 'main' fails without trying 'master'.
C18_EnableIdempotentBranchOrder ==
  \A c \in Callers :
    PagesLog(run[c].log) # <<>>
    => EnableFollowsBranchOrder(run[c], ExistedBefore(run[c]))

\* C19: after markGitHubActionTriggered at time t with no later call,
\* canTriggerGitHubAction is false and getRemainingCooldown is positive at
\* every time in [t, t + 60000), and the remaining time never increases as
\* the clock advances; from t + 60000 on canTriggerGitHubAction is true and
\* getRemainingCooldown is 0.  At every time canTriggerGitHubAction is true
\* exactly when getRemainingCooldown is 0.
C19_CooldownMonotonic ==
  /\ [](LET t == lastGitHubActionTime
        IN /\ (t # 0 /\ now >= t /\ now < t + 60000)
              => (/\ ~canTriggerGitHubAction(now, t)
                  /\ getRemainingCooldown(now, t) > 0)
           /\ (t # 0 /\ now >= t + 60000)
              => (/\ canTriggerGitHubAction(now, t)
                  /\ getRemainingCooldown(now, t) = 0)
           /\ canTriggerGitHubAction(now, t) <=> (getRemainingCooldown(now, t) = 0))
  /\ [][(lastGitHubActionTime' = lastGitHubActionTime /\ now' > now)
        => getRemainingCooldown(now', lastGitHubActionTime')
             <= getRemainingCooldown(now, lastGitHubActionTime)]_vars

\* Half a second before the end of the cooldown one second is still reported
\* and the gate is closed.
C19_Witness ==
  /\ lastGitHubActionTime # 0
  /\ now = lastGitHubActionTime + GITHUB_ACTION_COOLDOWN - 500
  /\ getRemainingCooldown(now, lastGitHubActionTime) = 1
  /\ ~canTriggerGitHubAction(now, lastGitHubActionTime)

\* A run over two local posts against an empty repository and a store that
\* fails no request: no site file and no post exists, the Pages target is
\* absent and accepts branch 'main', and the list of builds is empty.
FirstPublish(r) ==
  /\ Len(r.posts) = 2
  /\ faultsLeft = MaxFaults
  /\ \A k \in 1..Len(r.log) :
       /\ r.log[k].status # 422
       /\ (r.log[k].op = "GET" /\ r.log[k].path \in SitePaths) => r.log[k].status = 404
       /\ (r.log[k].op = "PUT" /\ r.log[k].path = "_posts") => ~r.log[k].sha
       /\ IsBuildsGet(r.log[k]) => r.log[k].info.n = 0
  /\ PagesLog(r.log) # <<>>
  /\ PagesLog(r.log)[1].status = 404

\* What the first publish does apart from counting: every file it writes is
\* created without a revision token, both posts are created, the Pages
\* target is enabled and a build is requested.
FirstPublishCreates(r, files) ==
  /\ \A f \in files : \E k \in Puts(r.log) :
       r.log[k].path = f /\ ~r.log[k].sha /\ Ok(r.log[k].status)
  /\ \A f \in Range(r.posts) : \E k \in PostPuts(r.log) :
       r.log[k].file = f /\ ~r.log[k].sha /\ Ok(r.log[k].status)
  /\ pagesEnabled /\ r.pagesUrl = "url"
  /\ HasBuildPost(r.log)

AfterPosts(r) == r.pc \in {"enableGitHubPages", "triggerPagesBuildIfNeeded", "saveSettings"}

ListingGets(log) == {k \in 1..Len(log) : log[k].op = "GET" /\ log[k].path = "_posts"}

\* One listing, and for each local post one write: an update with the sha of
\* the listing when the filename is listed, a create when it is not.
OneWritePerPost(r) ==
  /\ Cardinality(ListingGets(r.log)) = 1
  /\ Cardinality(PostPuts(r.log)) = Len(r.posts)
  /\ \A f \in Range(r.posts) :
       \E k \in PostPuts(r.log) :
         /\ r.log[k].file = f
         /\ r.log[k].sha <=> f \in r.existingPosts

\* A create request that the store rejected because the file exists.
IsCreateOfExisting(e) == e.op = "PUT" /\ ~e.sha /\ e.status = 422

\* C21 (as claimed): the listing is requested exactly once; each local post
\* is written exactly once, as an update with the listed sha when it is
\* listed and as a create when it is not; a post that exists remotely is
\* never written with a create request.
C21_OneListingUpdateOrCreate ==
  \A c \in Callers :
    /\ Cardinality(ListingGets(run[c].log)) <= 1
    /\ AfterPosts(run[c])
       => /\ OneWritePerPost(run[c])
          /\ \A k \in PostPuts(run[c].log) : ~IsCreateOfExisting(run[c].log[k])

\* C21 (amended): the same, except that a post that exists remotely is
\* written with a create request when the listing failed: the lookup is then
\* empty and every post is written as a create.
C21_CreateOfExistingOnlyAfterFailedListing ==
  \A c \in Callers :
    /\ Cardinality(ListingGets(run[c].log)) <= 1
    /\ AfterPosts(run[c])
       => /\ OneWritePerPost(run[c])
          /\ \A k \in PostPuts(run[c].log) :
               IsCreateOfExisting(run[c].log[k])
               => \A g \in ListingGets(run[c].log) : ~Ok(run[c].log[g].status)

\* After a failed listing a post that exists remotely was written with a
\* create request, which the store rejected.
C21_Witness ==
  \E c \in Callers :
    /\ AfterPosts(run[c])
    /\ \E g \in ListingGets(run[c].log) : run[c].log[g].status = 500
    /\ \E k \in PostPuts(run[c].log) : IsCreateOfExisting(run[c].log[k])

\* Positions of kinds of requests in a log.
CoreGets(log) == {k \in 1..Len(log) : log[k].op = "GET" /\ log[k].path \in CoreFiles}
PutsOf(log, path) == {k \in Puts(log) : log[k].path = path}
PagesReqs(log) ==
  {k \in 1..Len(log) : log[k].path \in {"pages", "pages/main", "pages/master"}}
BuildReqs(log) == {k \in 1..Len(log) : log[k].path = "pages/builds"}
PostIndex(r, f) == CHOOSE i \in 1..Len(r.posts) : r.posts[i] = f

Before(S, T) == \A k \in S : \A j \in T : k < j

\* The order of the requests of one run, read off its log.
InFixedOrder(r) ==
  LET log == r.log
  IN /\ Puts(log) # {} => {log[k].path : k \in CoreGets(log)} = CoreFiles
     /\ Before(CoreGets(log), Puts(log))
     /\ Before(PutsOf(log, "_config.yml"), PutsOf(log, "index.md"))
     /\ Before(PutsOf(log, "index.md"), PutsOf(log, "README.md"))
     /\ Before(PutsOf(log, "README.md"), PostPuts(log))
     /\ \A k, j \in PostPuts(log) :
          k < j => PostIndex(r, log[k].file) < PostIndex(r, log[j].file)
     /\ Before(Puts(log), PagesReqs(log))
     /\ PagesReqs(log) # {}
        => /\ \A path \in SitePaths : PutsOf(log, path) # {}
           /\ Cardinality(PostPuts(log)) = Len(r.posts)
     /\ r.pc \in {"triggerPagesBuildIfNeeded", "saveSettings"} => PagesReqs(log) # {}
     /\ Before(PagesReqs(log), BuildReqs(log))
     /\ BuildReqs(log) # {}
        => LET pages == PagesLog(log)
           IN /\ pages # <<>>
              /\ IsPagesGet(pages[Len(pages)])
              /\ Ok(pages[Len(pages)].status)

Timers(log) == {k \in 1..Len(log) : log[k].op = "timer"}

\* C23: between the attempts to write two successive local posts the 300 ms
\* timer has run, whether the earlier write succeeded or failed; no timer is
\* started after the last post.
C23_DelayBetweenPosts ==
  \A c \in Callers :
    LET log == run[c].log
    IN /\ \A k, j \in PostPuts(log) :
            k < j => \E t \in Timers(log) : k < t /\ t < j
       /\ AfterPosts(run[c])
          => \A t \in Timers(log) : \E j \in PostPuts(log) : t < j

\* C30: no step of a publish run changes the local post collection, the
\* stored site configuration or the stored homepage document; the sync
\* settings record is written only by a run that has attempted every content
\* write and the Pages step.
C30_OnlySettingsWritten ==
  [][/\ localPosts' = localPosts
     /\ jekyllConfig' = jekyllConfig
     /\ homepageConfig' = homepageConfig
     /\ config' = config
     /\ settings' # settings
        => \E c \in Callers :
             /\ run[c].pc = "saveSettings"
             /\ run'[c].pc = "returned"
             /\ settings' = [syncEnabled |-> TRUE, lastSync |-> "date"]
             /\ Cardinality(PostPuts(run[c].log)) = Len(run[c].posts)
             /\ \A path \in SitePaths : PutsOf(run[c].log, path) # {}
             /\ PagesReqs(run[c].log) # {}]_vars

\* A run over a store without site configuration and homepage document has
\* returned after writing the settings record, and the store still holds
\* neither document.
C30_Witness ==
  \E c \in Callers :
    /\ run[c].pc = "returned"
    /\ run[c].admitted
    /\ settings.syncEnabled
    /\ jekyllConfig = "absent"
    /\ homepageConfig = "absent"
    /\ localPosts # <<>>

\* C27: a run that was admitted eventually returns and the lock is free
\* again, provided every operation it awaits settles.
C27_AdmittedRunReturns ==
  \A c \in Callers :
    (InFlight(c) /\ isPublishing) ~> (run[c].pc = "returned" /\ ~isPublishing)

\* A run with a failed write has returned and released the lock.
C27_Witness ==
  \E c \in Callers :
    /\ run[c].pc = "returned" /\ run[c].admitted
    /\ Len(run[c].result.errors) > 0
    /\ run[c].result.message = "Published"
    /\ ~isPublishing

RemoteReqs(log) == {k \in 1..Len(log) : log[k].op \in {"GET", "PUT", "POST"}}

\* C28: all remote requests of one run address the same repository, also
\* when another operation calls setApiConfig with a different repository
\* while the run is in flight.
C28_OneRepositoryPerRun ==
  \A c \in Callers :
    \A k, j \in RemoteReqs(run[c].log) : run[c].log[k].repo = run[c].log[j].repo

\* C24: any two consecutive requests of the client go out at least
\* MIN_REQUEST_INTERVAL apart, also when their calls were submitted together.
C24_RequestsSpaced ==
  pacing.sent >= 2 => pacing.latest - pacing.previous >= MIN_REQUEST_INTERVAL

\* Two requests went out exactly one interval apart while a third call,
\* submitted with them, waits in the queue.
C24_Witness ==
  /\ pacing.sent >= 2
  /\ pacing.latest - pacing.previous = MIN_REQUEST_INTERVAL
  /\ Len(requestQueue) >= 3
  /\ requestQueue[3].state = "pending"
  /\ pacing.stage[2] = "sent"

\* The repository name without a trailing '.git'.
WithoutGitSuffix(name) ==
  IF name[Len(name)] = ".git" THEN SubSeq(name, 1, Len(name) - 1) ELSE name

\* C25: setApiConfig with a URL that does not match throws and leaves owner,
\* repo and token as they were; with a URL that matches it stores the owner
\* and the repository name of the URL, less a trailing '.git' only.
C25_StoresOwnerAndRepo ==
  [][LET url == apiConfig'.url
     IN IF url.matches
        THEN /\ ~apiConfig'.thrown
             /\ apiConfig'.owner = url.owner
             /\ apiConfig'.repo = WithoutGitSuffix(url.name)
             /\ apiConfig'.token = apiConfig'.argToken
        ELSE /\ apiConfig'.thrown
             /\ apiConfig'.owner = apiConfig.owner
             /\ apiConfig'.repo = apiConfig.repo
             /\ apiConfig'.token = apiConfig.token]_apiConfig

\* Call o replaced what call s saved: a deletePost or savePost of the same
\* filename or an importPosts that stored its list after s did.
ReplacedBy(s, o) ==
  /\ o.pc = "completed"
  /\ o.wrote > s.wrote
  /\ o.kind = "importPosts" \/ o.filename = s.filename

\* C26: the stored collection holds at most one post per filename, and the
\* post of every completed savePost is stored with the content saved unless
\* a later deletePost or savePost of its filename or a later importPosts
\* replaced it, also when calls overlap.
C26_AtomicUpsertStore ==
  /\ \A k, j \in 1..Len(storage.posts) :
       storage.posts[k].filename = storage.posts[j].filename => k = j
  /\ \A s \in Ops :
       (storage.ops[s].pc = "completed" /\ storage.ops[s].kind = "savePost")
       => \/ \E k \in 1..Len(storage.posts) :
               storage.posts[k] = StoredPost(storage.ops[s].filename, s)
          \/ \E o \in Ops \ {s} : ReplacedBy(storage.ops[s], storage.ops[o])

SyncPuts(f) ==
  {k \in 1..Len(sync.log) : sync.log[k].op = "PUT" /\ sync.log[k].file = f}

\* The posts the loop of syncToGitHub is done with.
SyncProcessed ==
  IF sync.pc \in {"saveSettings", "returned"} THEN Range(sync.posts)
  ELSE {sync.posts[k] : k \in 1..(sync.i - 1)}

\* C29: syncToGitHub issues a create request for a post only when the post
\* does not exist remotely; when the update of a post fails no create request
\* is issued for it, the failure is recorded as one error naming the post,
\* and the remaining posts are still processed.
C29_CreateOnlyWhenAbsent ==
  /\ \A k \in 1..Len(sync.log) : ~IsCreateOfExisting(sync.log[k])
  /\ \A f \in Filenames :
       (\E k \in SyncPuts(f) : sync.log[k].sha /\ ~Ok(sync.log[k].status))
       => /\ \A k \in SyncPuts(f) : sync.log[k].sha
          /\ f \in SyncProcessed
             => Cardinality({e \in 1..Len(sync.errors) : sync.errors[e].file = f}) = 1
  /\ sync.pc = "saveSettings"
     => \A f \in Range(sync.posts) :
          \E k \in 1..Len(sync.log) : sync.log[k].file = f

====
